---------------------------- MODULE Spec2Model ----------------------------
(***************************************************************************)
(* Model of src/app.py (StatusWatcher, a discord.py client).               *)
(*                                                                         *)
(* The client runs on one asyncio event loop: a coroutine runs without     *)
(* interruption up to its next await that really suspends (a platform      *)
(* call), so one action of this model is the code between two such awaits. *)
(* Rendering of messages and embeds is not modelled: a notification is     *)
(* represented by its kind only.  (As written, the embed title at          *)
(* src/app.py:552 is an f-string with an unclosed brace; the model takes   *)
(* the call at 551-558 as the send of an "offline" notification.)          *)
(*                                                                         *)
(* The three parts of the client share no state: presence monitoring       *)
(* (last_status), the /watch cooldown (watch_cooldown) and the personal    *)
(* rooms (the two categories, room_creation_times).  Each part has its own *)
(* specification; Spec is their composition.                               *)
(***************************************************************************)
EXTENDS Integers, Sequences, FiniteSets, TLC

NONE == "None"

\* A Python dict as a function on the set of its keys.
EmptyDict == [k \in {} |-> 0]

DictSet(d, key, value) ==
    [k \in DOMAIN d \cup {key} |-> IF k = key THEN value ELSE d[k]]

(***************************************************************************)
(* Presence monitoring: check_status_loop and handle_status_change.        *)
(***************************************************************************)

\* MONITORED_BOT_IDS: the configured list, in its order.
MONITORED_BOT_IDS == <<"botA", "botB">>

Bots == {MONITORED_BOT_IDS[k] : k \in 1..Len(MONITORED_BOT_IDS)}

\* str(member.status), or "not_in_guild" when guild.get_member returns None.
RawStatus == {"online", "idle", "dnd", "offline", "invisible", "not_in_guild"}

offline_states == {"offline", "invisible", "not_in_guild"}

\* Number of check cycles explored.
MaxCycles == 3

\* Number of restarts of the process explored.
MaxRestarts == 1

VARIABLES
    clock,          \* time.time(), in ticks
    watch_cooldown, \* self.watch_cooldown: user -> time of the last accepted /watch
    inbox,          \* /watch messages dispatched whose handler has not run yet
    last_resp,      \* history: the response of the latest /watch handler
    last_accept     \* history: per user, the time of the latest accepted /watch

watchVars == <<clock, watch_cooldown, inbox, last_resp, last_accept>>

VARIABLES
    today,          \* discord.utils.utcnow(), in days
    channels,       \* the text channels of the two categories
    member_roles,   \* member.roles, as role names
    room_creation_times, \* self.room_creation_times
    tasks,          \* the callers of ensure_member_room: loop, /room handler, twice
    arch,           \* archive_old_rooms_loop: [pc, now, todo, last_ts, archived_count, ...]
    since_sweep,    \* history: how the last archive sweep ended, what came after
    arch_last       \* history: the latest channel an archive sweep decided on

roomVars == <<today, channels, member_roles, room_creation_times, tasks, arch,
              since_sweep, arch_last>>

VARIABLES
    last_status,    \* self.last_status: bot id -> raw status, NONE when absent
    chk,            \* check_status_loop: [pc, i, kind]
    cycles,         \* check cycles started so far
    emitted,        \* history: notifications handed to channel.send, in order
    delivered,      \* history: notifications whose send returned
    obs,            \* history: per bot, the classes observed, in order
    last_obs,       \* history: the most recent observation and what it did
    restarts,       \* how often the process was started again
    skipped         \* history: the cycles that returned at 461-468

presenceVars == <<last_status, chk, cycles, emitted, delivered, obs, last_obs,
                  restarts, skipped>>

VARIABLES
    summary         \* history: the latest response to /bot-status

\* What each part leaves alone.
notPresence == <<watchVars, roomVars, summary>>
notWatch == <<presenceVars, roomVars, summary>>
notRooms == <<presenceVars, watchVars, summary>>

\* The class of a raw status (handle_status_change: membership in offline_states).
StatusClass(s) == IF s \in offline_states THEN "unreachable" ELSE "reachable"

\* Mutants of handle_status_change: only "offline" counts as offline; the two
\* branches swapped.
HandleStatusChange_OnlyOffline(old_status, new_status) ==
    LET is_now_offline == new_status = "offline"
        was_offline == old_status = "offline"
    IN  IF ~is_now_offline /\ was_offline THEN "online"
        ELSE IF is_now_offline /\ ~was_offline THEN "offline"
        ELSE "ignored"

HandleStatusChange_Swapped(old_status, new_status) ==
    LET is_now_offline == new_status \in offline_states
        was_offline == old_status \in offline_states
    IN  IF ~is_now_offline /\ was_offline THEN "offline"
        ELSE IF is_now_offline /\ ~was_offline THEN "online"
        ELSE "ignored"

\* Mutant of handle_status_change: every change of the raw status is told,
\* under the class of the new status.
HandleStatusChange_EveryRawChange(old_status, new_status) ==
    IF new_status \in offline_states THEN "offline" ELSE "online"

\* handle_status_change: the branch taken for old_status -> new_status.
HandleStatusChange(old_status, new_status) ==
    LET is_now_offline == new_status \in offline_states
        was_offline == old_status \in offline_states
    IN  IF ~is_now_offline /\ was_offline THEN "online"
        ELSE IF is_now_offline /\ ~was_offline THEN "offline"
        ELSE "ignored"

\* self.last_status.get(bot_id)
PreviousStatus(bot_id) == last_status[bot_id]

\* Mutant of the loop body: a bot seen for the first time is compared with
\* "offline" instead of being stored silently.
ObserveBot_FirstAsOffline(previous_status, current_status) ==
    LET prev == IF previous_status = NONE THEN "offline" ELSE previous_status
        branch == HandleStatusChange(prev, current_status)
    IN  IF current_status = prev
        THEN [store |-> current_status, kind |-> "none"]
        ELSE [store |-> current_status,
              kind |-> IF branch = "ignored" THEN "none" ELSE branch]

\* Mutant of the loop body: the new status is not stored when a notification
\* is due.
ObserveBot_NoStoreBeforeSend(previous_status, current_status) ==
    IF previous_status = NONE
    THEN [store |-> current_status, kind |-> "none"]
    ELSE IF current_status = previous_status
    THEN [store |-> previous_status, kind |-> "none"]
    ELSE LET branch == HandleStatusChange(previous_status, current_status)
         IN  [store |-> IF branch = "ignored" THEN current_status
                        ELSE previous_status,
              kind |-> IF branch = "ignored" THEN "none" ELSE branch]

\* The body of check_status_loop's for loop for one bot: what it stores and
\* which notification, if any, it goes on to send.
\* Result: [store, kind] with kind in {"none", "online", "offline"}.
ObserveBot(previous_status, current_status) ==
    IF previous_status = NONE
    THEN [store |-> current_status, kind |-> "none"]
    ELSE IF current_status = previous_status
    THEN [store |-> previous_status, kind |-> "none"]
    ELSE LET branch == HandleStatusChange(previous_status, current_status)
         IN  [store |-> current_status,
              kind |-> IF branch = "ignored" THEN "none" ELSE branch]

PresenceInit ==
    /\ last_status = [b \in Bots |-> NONE]
    /\ chk = [pc |-> "idle", i |-> 0, kind |-> "none"]
    /\ cycles = 0
    /\ emitted = <<>>
    /\ delivered = <<>>
    /\ obs = [b \in Bots |-> <<>>]
    /\ last_obs = [bot |-> NONE, status |-> NONE, prev |-> NONE, kind |-> "none"]
    /\ restarts = 0
    /\ skipped = {}

\* A cycle starts: the guild and the status channel are looked up; when either
\* is missing the cycle returns at once.
CheckStart ==
    /\ chk.pc = "idle"
    /\ cycles < MaxCycles
    /\ cycles' = cycles + 1
    /\ \E guild_ok \in BOOLEAN, channel_ok \in BOOLEAN :
         IF guild_ok /\ channel_ok
         THEN /\ chk' = [pc |-> "loop", i |-> 1, kind |-> "none"]
              /\ skipped' = skipped
         ELSE /\ chk' = [pc |-> "idle", i |-> 0, kind |-> "none"]
              /\ skipped' = skipped \cup {cycles + 1}
    /\ UNCHANGED <<last_status, emitted, delivered, obs, last_obs>>
    /\ UNCHANGED <<restarts, notPresence>>

\* One iteration of the for loop, up to the await of channel.send.
CheckBot ==
    /\ chk.pc = "loop"
    /\ chk.i <= Len(MONITORED_BOT_IDS)
    /\ \E current_status \in RawStatus :
         LET bot_id == MONITORED_BOT_IDS[chk.i]
             previous_status == PreviousStatus(bot_id)
             r == ObserveBot(previous_status, current_status)
         IN  /\ last_status' = [last_status EXCEPT ![bot_id] = r.store]
             /\ obs' = [obs EXCEPT ![bot_id] = Append(@, StatusClass(current_status))]
             /\ last_obs' = [bot |-> bot_id, status |-> current_status,
                             prev |-> previous_status, kind |-> r.kind]
             /\ IF r.kind = "none"
                THEN /\ chk' = [chk EXCEPT !.i = @ + 1]
                     /\ emitted' = emitted
                ELSE /\ chk' = [chk EXCEPT !.pc = "send", !.kind = r.kind]
                     /\ emitted' = Append(emitted, [bot |-> bot_id, kind |-> r.kind])
    /\ UNCHANGED <<cycles, delivered>>
    /\ UNCHANGED <<restarts, skipped, notPresence>>

\* channel.send returns: the loop goes on with the next bot.
SendOk ==
    /\ chk.pc = "send"
    /\ delivered' = Append(delivered,
                           [bot |-> MONITORED_BOT_IDS[chk.i], kind |-> chk.kind])
    /\ chk' = [pc |-> "loop", i |-> chk.i + 1, kind |-> "none"]
    /\ UNCHANGED <<last_status, cycles, emitted, obs, last_obs>>
    /\ UNCHANGED <<restarts, skipped, notPresence>>

\* channel.send raises: nothing in handle_status_change or check_status_loop
\* catches it, so the cycle ends there.  tasks.loop either runs the coroutine
\* again later (a connection error) or stops the loop for good (any other).
SendFail ==
    /\ chk.pc = "send"
    /\ \E retried \in BOOLEAN :
         chk' = [pc |-> IF retried THEN "idle" ELSE "stopped",
                 i |-> 0, kind |-> "none"]
    /\ UNCHANGED <<last_status, cycles, emitted, delivered, obs, last_obs>>
    /\ UNCHANGED <<restarts, skipped, notPresence>>

\* The for loop is exhausted: the cycle is over.
CheckEnd ==
    /\ chk.pc = "loop"
    /\ chk.i > Len(MONITORED_BOT_IDS)
    /\ chk' = [pc |-> "idle", i |-> 0, kind |-> "none"]
    /\ UNCHANGED <<last_status, cycles, emitted, delivered, obs, last_obs>>
    /\ UNCHANGED <<restarts, skipped, notPresence>>

PresenceNext == CheckStart \/ CheckBot \/ SendOk \/ SendFail \/ CheckEnd

(***************************************************************************)
(* The /watch command of on_message and its per-user cooldown.             *)
(*                                                                         *)
(* time.time() is a float; the model counts it in ticks of 1/TicksPerSec   *)
(* second.  Message handlers are tasks of the one event loop: several may  *)
(* be scheduled at once (inbox), each runs from its start to its first     *)
(* await without interruption.                                             *)
(***************************************************************************)

\* The cooldown of /watch, in seconds (the literal 10 of lines 278-279).
WATCH_COOLDOWN == 10

\* Resolution of the clock: ticks per second.
TicksPerSec == 2

\* How long the clock runs, in ticks.
WatchHorizon == 21

\* /watch messages scheduled and not yet handled, over all users.
MaxInflight == 2

WatchUsers == {"u1", "u2"}

CooldownTicks == WATCH_COOLDOWN * TicksPerSec

\* time.time() when the model starts: any value of the epoch clock is at
\* least a cooldown away from 0, the default of watch_cooldown.get.
ClockStart == CooldownTicks

\* self.watch_cooldown.get(message.author.id, 0)
CooldownGet(author) ==
    IF author \in DOMAIN watch_cooldown THEN watch_cooldown[author] ELSE 0

\* int(x) for the float x = num / TicksPerSec: truncation toward zero.
IntOfTicks(num) ==
    IF num >= 0 THEN num \div TicksPerSec ELSE -((-num) \div TicksPerSec)

\* Mutant of the /watch gate: the cooldown entry is not written on acceptance.
WatchGate_NoUpdate(now, last, author) ==
    IF now - last < CooldownTicks
    THEN [accepted |-> FALSE,
          remaining |-> IntOfTicks(CooldownTicks - (now - last)),
          cooldown |-> watch_cooldown]
    ELSE [accepted |-> TRUE, remaining |-> 0, cooldown |-> watch_cooldown]

\* Mutant of the /watch gate: the remaining wait is rounded up to whole seconds
\* from the cooldown's start instead of truncated.
WatchGate_WrongRemaining(now, last, author) ==
    IF now - last < CooldownTicks
    THEN [accepted |-> FALSE,
          remaining |-> WATCH_COOLDOWN,
          cooldown |-> watch_cooldown]
    ELSE [accepted |-> TRUE, remaining |-> 0,
          cooldown |-> DictSet(watch_cooldown, author, now)]

\* Mutant of the /watch gate: a rejection restarts the user's cooldown.
WatchGate_RejectionRestarts(now, last, author) ==
    IF now - last < CooldownTicks
    THEN [accepted |-> FALSE,
          remaining |-> IntOfTicks(CooldownTicks - (now - last)),
          cooldown |-> DictSet(watch_cooldown, author, now)]
    ELSE [accepted |-> TRUE, remaining |-> 0,
          cooldown |-> DictSet(watch_cooldown, author, now)]

\* Lines 276-284: the cooldown check and, on acceptance, the update.
WatchGate(now, last, author) ==
    IF now - last < CooldownTicks
    THEN [accepted |-> FALSE,
          remaining |-> IntOfTicks(CooldownTicks - (now - last)),
          cooldown |-> watch_cooldown]
    ELSE [accepted |-> TRUE, remaining |-> 0,
          cooldown |-> DictSet(watch_cooldown, author, now)]

RECURSIVE SumOver(_, _)
SumOver(f, S) ==
    IF S = {} THEN 0
    ELSE LET x == CHOOSE y \in S : TRUE IN f[x] + SumOver(f, S \ {x})

InboxTotal == SumOver(inbox, WatchUsers)

\* No /watch handler has run yet.
NoResponse ==
    [author |-> NONE, kind |-> "none", t |-> 0, remaining |-> 0,
     queried |-> FALSE]

WatchInit ==
    /\ clock = ClockStart
    /\ watch_cooldown = EmptyDict
    /\ inbox = [u \in WatchUsers |-> 0]
    /\ last_resp = NoResponse
    /\ last_accept = EmptyDict

\* Time passes.
Tick ==
    /\ clock < ClockStart + WatchHorizon
    /\ clock' = clock + 1
    /\ UNCHANGED <<watch_cooldown, inbox, last_resp, last_accept>>
    /\ UNCHANGED notWatch

\* A user sends /watch: discord.py schedules on_message as a new task.
DispatchWatch(author) ==
    /\ InboxTotal < MaxInflight
    /\ inbox' = [inbox EXCEPT ![author] = @ + 1]
    /\ UNCHANGED <<clock, watch_cooldown, last_resp, last_accept>>
    /\ UNCHANGED notWatch

\* on_message for /watch, lines 275-331.  No await lies between the check and
\* the update; the awaits that follow (message.channel.send) change no state.
OnWatch(author) ==
    /\ inbox[author] > 0
    /\ inbox' = [inbox EXCEPT ![author] = @ - 1]
    /\ LET now == clock
           last == CooldownGet(author)
           g == WatchGate(now, last, author)
       IN  /\ watch_cooldown' = g.cooldown
           /\ last_resp' =
                 IF ~g.accepted
                 THEN [author |-> author, kind |-> "cooldown", t |-> now,
                       remaining |-> g.remaining, queried |-> FALSE]
                 ELSE IF Len(MONITORED_BOT_IDS) = 0
                 THEN [author |-> author, kind |-> "no_bots", t |-> now,
                       remaining |-> 0, queried |-> FALSE]
                 ELSE [author |-> author, kind |-> "status", t |-> now,
                       remaining |-> 0, queried |-> TRUE]
           /\ last_accept' = IF g.accepted
                             THEN DictSet(last_accept, author, now)
                             ELSE last_accept
    /\ UNCHANGED clock
    /\ UNCHANGED notWatch

WatchNext ==
    \/ Tick
    \/ \E author \in WatchUsers : DispatchWatch(author)
    \/ \E author \in WatchUsers : OnWatch(author)

(***************************************************************************)
(* Personal rooms: ensure_member_room, user_room_check_loop, the /room     *)
(* command and archive_old_rooms_loop.                                     *)
(*                                                                         *)
(* guild.create_text_channel puts the new channel into the guild's cache   *)
(* before it returns, so category.channels and the platform agree and one  *)
(* variable, channels, stands for both.  Channel names need not be unique  *)
(* on the platform.                                                        *)
(***************************************************************************)

\* guild.members, in iteration order.
Members == <<"ann", "bob", "root", "ocr", "lee">>

MemberSet == {Members[k] : k \in 1..Len(Members)}

\* member.bot
IsBot(member) == member = "ocr"

\* member.guild_permissions.administrator
IsAdministrator(member) == member = "root"

\* member.roles when the model starts.
InitialRoles ==
    [m \in MemberSet |->
        CASE m = "bob" -> {"SS"}
          [] m = "ocr" -> {"bot"}
          [] m = "lee" -> {"L"}
          [] OTHER -> {}]

\* member.display_name, as a sequence of characters.
DisplayName(member) ==
    CASE member = "ann" -> <<"A", "n", "n", " ", "B">>
      [] member = "bob" -> <<" ", "b", "o", "b", " ">>
      [] member = "root" -> <<"R", "o", "o", "t">>
      [] member = "ocr" -> <<"O", "C", "R">>
      [] OTHER -> <<"L", "e", "e">>

\* str(member.id)
MemberId(member) ==
    CASE member = "ann" -> <<"1">>
      [] member = "bob" -> <<"2">>
      [] member = "root" -> <<"3">>
      [] member = "ocr" -> <<"4">>
      [] OTHER -> <<"5">>

IGNORE_ROLE_NAMES == {"L", "bot"}

SS_ROLE_NAME == "SS"

\* guild.roles, as role names.
GuildRoles == {"SS", "L", "bot"}

SS_CLASS == "SS-Class"

SS_ARCHIVE == "Archive"

\* The slice name[:90] of make_channel_name.
NAME_LIMIT == 90

\* ARCHIVE_INACTIVE_DAYS (default).
ARCHIVE_INACTIVE_DAYS == 10

\* The clock of the rooms advances in steps of the archive threshold.
TimeStep == ARCHIVE_INACTIVE_DAYS

\* Number of steps the clock of the rooms makes.
MaxTimeSteps == 2

\* Text channels the platform accepts before create_text_channel fails.
MaxChannels == 2

\* str.lower on one character.
Lower(c) ==
    CASE c = "A" -> "a"
      [] c = "B" -> "b"
      [] c = "C" -> "c"
      [] c = "L" -> "l"
      [] c = "O" -> "o"
      [] c = "R" -> "r"
      [] OTHER -> c

RECURSIVE LStrip(_)
LStrip(str) ==
    IF str # <<>> /\ Head(str) = " " THEN LStrip(Tail(str)) ELSE str

RECURSIVE RStrip(_)
RStrip(str) ==
    IF str # <<>> /\ str[Len(str)] = " "
    THEN RStrip(SubSeq(str, 1, Len(str) - 1))
    ELSE str

\* str.strip
Strip(str) == RStrip(LStrip(str))

\* make_channel_name(member)
make_channel_name(member) ==
    LET stripped == Strip(DisplayName(member))
        base == IF stripped = <<>>
                THEN <<"u", "s", "e", "r", "-">> \o MemberId(member)
                ELSE stripped
        name == [k \in 1..Len(base) |->
                    Lower(IF base[k] = " " THEN "-" ELSE base[k])]
    IN  SubSeq(name, 1, IF Len(name) < NAME_LIMIT THEN Len(name) ELSE NAME_LIMIT)

\* Mutant of the snapshot: the names of the channels of every category.
CategoryNames_AnyCategory(category) == {ch.name : ch \in channels}

\* {ch.name for ch in category.channels if isinstance(ch, discord.TextChannel)}
CategoryNames(category) ==
    {ch.name : ch \in {c \in channels : c.category = category}}

\* Mutant of the ignore rules: administrators are not skipped.
Ineligible_AdminsPass(member) ==
    \/ IsBot(member)
    \/ member_roles[member] \cap IGNORE_ROLE_NAMES # {}

\* The ignore rules of ensure_member_room (lines 144-155).
Ineligible(member) ==
    \/ IsBot(member)
    \/ IsAdministrator(member)
    \/ member_roles[member] \cap IGNORE_ROLE_NAMES # {}

\* Mutant of the existence check: the name is never found in the snapshot.
NeedsRoom_NoLookup(member, existing_names) == ~Ineligible(member)

\* Lines 144-169 of ensure_member_room: TRUE when the call goes on to
\* create_text_channel, FALSE when it returns False before.
NeedsRoom(member, existing_names) ==
    /\ ~Ineligible(member)
    /\ make_channel_name(member) \notin existing_names

\* The coroutines that call ensure_member_room: user_room_check_loop, the
\* handler of /room, and a caller that calls it twice on one snapshot.
TaskIds == {"loop", "cmd", "twice"}

\* at_start and archived_at_start are history: the snapshot
\* user_room_check_loop or /room took when it started, before any call added
\* to it, and the ids of the channels that were in the archive category at
\* that moment.
IdleTask ==
    [pc |-> "idle", author |-> NONE, existing_names |-> {}, todo |-> <<>>,
     results |-> <<>>, created_count |-> 0, at_start |-> {},
     archived_at_start |-> {}]

\* A coroutine that calls ensure_member_room for each member of t.todo runs
\* on, without suspending, through every call that returns before
\* create_text_channel; it suspends in the first call that awaits it.
RECURSIVE RunToAwait(_)
RunToAwait(t) ==
    IF t.todo = <<>>
    THEN [t EXCEPT !.pc = "reply"]
    ELSE IF NeedsRoom(Head(t.todo), t.existing_names)
    THEN [t EXCEPT !.pc = "creating"]
    ELSE RunToAwait([t EXCEPT
            !.todo = Tail(@),
            !.results = Append(@, [member |-> Head(t.todo), ret |-> FALSE,
                                   create_called |-> FALSE, created |-> FALSE])])

\* Mutant of the bookkeeping after create_text_channel: the new name is not
\* added to the caller's snapshot.
NamesAfterCreate_NoAdd(existing_names, name) == existing_names

\* existing_names.add(channel.name), line 194.
NamesAfterCreate(existing_names, name) == existing_names \cup {name}

\* What ensure_member_room returns once create_text_channel was awaited:
\* True when the create and the welcome message both went through; the
\* except clause at 224 turns a failure of either into False.
EnsureResult(create_ok, welcome_ok) == create_ok /\ welcome_ok

\* since_sweep: "none" when no sweep has started, when a move of the last
\* sweep failed, or when a message was posted or a room created after it
\* started; otherwise "running" while it runs, and once it is through whether
\* all its reads went through as well ("clean") or only its moves ("moved");
\* later tells whether the clock has advanced since it started.
NoSweep == [kind |-> "none", later |-> FALSE]

IdleArch ==
    [pc |-> "idle", now |-> 0, todo |-> <<>>, last_ts |-> 0,
     archived_count |-> 0, moves_ok |-> TRUE, reads_ok |-> TRUE,
     rerun |-> NoSweep]

NoDecision == [channel |-> 0, last_ts |-> 0, outcome |-> "none"]

\* History: a message or a new room ends the quiet after the last sweep.
Disturbed(yes) == IF yes THEN NoSweep ELSE since_sweep

RoomsInit ==
    /\ today = 0
    /\ channels = {}
    /\ member_roles = InitialRoles
    /\ room_creation_times = <<>>
    /\ tasks = [id \in TaskIds |-> IdleTask]
    /\ arch = IdleArch
    /\ since_sweep = NoSweep
    /\ arch_last = NoDecision

\* user_room_check_loop fires: the snapshot is taken and the loop over
\* guild.members runs to its first create_text_channel.
\* Mutant of the sweep: the first member of guild.members is left out.
SweepStart_SkipsFirst ==
    /\ tasks["loop"].pc = "idle"
    /\ tasks' = [tasks EXCEPT !["loop"] =
            RunToAwait([IdleTask EXCEPT
                !.existing_names = CategoryNames(SS_CLASS),
                !.at_start = CategoryNames(SS_CLASS),
                !.archived_at_start =
                    {c.id : c \in {ch \in channels : ch.category = SS_ARCHIVE}},
                !.todo = Tail(Members)])]
    /\ UNCHANGED <<today, channels, member_roles, room_creation_times, arch,
                   since_sweep, arch_last>>
    /\ UNCHANGED notRooms

SweepStart ==
    /\ tasks["loop"].pc = "idle"
    /\ tasks' = [tasks EXCEPT !["loop"] =
            RunToAwait([IdleTask EXCEPT
                !.existing_names = CategoryNames(SS_CLASS),
                !.at_start = CategoryNames(SS_CLASS),
                !.archived_at_start =
                    {c.id : c \in {ch \in channels : ch.category = SS_ARCHIVE}},
                !.todo = Members])]
    /\ UNCHANGED <<today, channels, member_roles, room_creation_times, arch,
                   since_sweep, arch_last>>
    /\ UNCHANGED notRooms

\* Mutant of /room: anyone's handler goes over guild.members.
RoomStart_ScanForAnyone(author) ==
    /\ tasks["cmd"].pc = "idle"
    /\ ~IsBot(author)
    /\ tasks' = [tasks EXCEPT !["cmd"] =
            RunToAwait([IdleTask EXCEPT
                !.author = author,
                !.existing_names = CategoryNames(SS_CLASS),
                !.at_start = CategoryNames(SS_CLASS),
                !.archived_at_start =
                    {c.id : c \in {ch \in channels : ch.category = SS_ARCHIVE}},
                !.todo = Members])]
    /\ UNCHANGED <<today, channels, member_roles, room_creation_times, arch,
                   since_sweep, arch_last>>
    /\ UNCHANGED notRooms

\* on_message for /room (lines 334-382): an administrator's handler goes over
\* guild.members, anyone else's over the author alone.  (The administrator's
\* handler first awaits the send of a notice; the snapshot is taken after it.)
RoomStart(author) ==
    /\ tasks["cmd"].pc = "idle"
    /\ ~IsBot(author)
    /\ tasks' = [tasks EXCEPT !["cmd"] =
            RunToAwait([IdleTask EXCEPT
                !.author = author,
                !.existing_names = CategoryNames(SS_CLASS),
                !.at_start = CategoryNames(SS_CLASS),
                !.archived_at_start =
                    {c.id : c \in {ch \in channels : ch.category = SS_ARCHIVE}},
                !.todo = IF IsAdministrator(author) THEN Members
                         ELSE <<author>>])]
    /\ UNCHANGED <<today, channels, member_roles, room_creation_times, arch,
                   since_sweep, arch_last>>
    /\ UNCHANGED notRooms

\* The await of create_text_channel returns or raises (lines 188-229), and the
\* coroutine runs on to its next create_text_channel.  The awaits that follow
\* the create inside the same call (add_roles, channel.send, send_log_message)
\* are folded into this step: no other coroutine reads what they write before
\* it is written.
CreateDone(id) ==
    /\ tasks[id].pc = "creating"
    /\ \E create_ok \in BOOLEAN, role_ok \in BOOLEAN, welcome_ok \in BOOLEAN :
         LET t == tasks[id]
             member == Head(t.todo)
             channel_name == make_channel_name(member)
             ss_role == SS_ROLE_NAME \in GuildRoles
             assign == ss_role /\ SS_ROLE_NAME \notin member_roles[member]
             channel == [id |-> Cardinality(channels) + 1,
                         name |-> channel_name,
                         owner |-> member,
                         category |-> SS_CLASS,
                         created_at |-> today,
                         history |-> IF welcome_ok THEN <<today>> ELSE <<>>]
             ret == EnsureResult(create_ok, welcome_ok)
             after == [t EXCEPT
                 !.todo = Tail(@),
                 !.existing_names = IF create_ok
                                    THEN NamesAfterCreate(@, channel_name)
                                    ELSE @,
                 !.created_count = IF ret THEN @ + 1 ELSE @,
                 !.results = Append(@, [member |-> member, ret |-> ret,
                                        create_called |-> TRUE,
                                        created |-> create_ok])]
         IN  /\ create_ok => Cardinality(channels) < MaxChannels
             /\ ~create_ok => (role_ok /\ welcome_ok)
             /\ ~assign => role_ok
             /\ channels' = IF create_ok THEN channels \cup {channel} ELSE channels
             /\ room_creation_times' = IF create_ok
                                       THEN Append(room_creation_times, today)
                                       ELSE room_creation_times
             /\ member_roles' = IF create_ok /\ assign /\ role_ok
                                THEN [member_roles EXCEPT ![member] = @ \cup {SS_ROLE_NAME}]
                                ELSE member_roles
             /\ since_sweep' = Disturbed(create_ok)
             /\ tasks' = [tasks EXCEPT ![id] = RunToAwait(after)]
    /\ UNCHANGED <<today, arch, arch_last>>
    /\ UNCHANGED notRooms

\* The coroutine is through with its members: the loop logs the count and
\* returns, the /room handler awaits the send of its reply and returns.
TaskReturn(id) ==
    /\ tasks[id].pc = "reply"
    /\ tasks' = [tasks EXCEPT ![id] = IdleTask]
    /\ UNCHANGED <<today, channels, member_roles, room_creation_times, arch,
                   since_sweep, arch_last>>
    /\ UNCHANGED notRooms

ProvisionNext ==
    \/ SweepStart
    \/ \E author \in MemberSet : RoomStart(author)
    \/ \E id \in {"loop", "cmd"} : CreateDone(id)
    \/ \E id \in {"loop", "cmd"} : TaskReturn(id)

\* ensure_member_room(guild, member, category, existing_names) called twice
\* in a row for one member, with one set existing_names.
EnsureTwice(member) ==
    /\ tasks["twice"].pc = "idle"
    /\ tasks' = [tasks EXCEPT !["twice"] =
            RunToAwait([IdleTask EXCEPT
                !.author = member,
                !.existing_names = CategoryNames(SS_CLASS),
                !.todo = <<member, member>>])]
    /\ UNCHANGED <<today, channels, member_roles, room_creation_times, arch,
                   since_sweep, arch_last>>
    /\ UNCHANGED notRooms

\* The two calls in a row, next to the scheduled provisioning.
EnsureTwiceNext ==
    \/ SweepStart
    \/ \E member \in MemberSet : EnsureTwice(member)
    \/ \E id \in {"loop", "twice"} : CreateDone(id)
    \/ \E id \in {"loop", "twice"} : TaskReturn(id)

\* Time passes.
DayPasses ==
    /\ today < MaxTimeSteps * TimeStep
    /\ today' = today + TimeStep
    /\ since_sweep' = IF since_sweep.kind = "none" THEN since_sweep
                      ELSE [since_sweep EXCEPT !.later = TRUE]
    /\ UNCHANGED <<channels, member_roles, room_creation_times, tasks, arch,
                   arch_last>>
    /\ UNCHANGED notRooms

\* Somebody posts a message in a room of the active category.
PostMessage(ch) ==
    /\ ch.category = SS_CLASS
    /\ channels' = (channels \ {ch}) \cup {[ch EXCEPT !.history = <<today>>]}
    /\ since_sweep' = Disturbed(TRUE)
    /\ UNCHANGED <<today, member_roles, room_creation_times, tasks, arch,
                   arch_last>>
    /\ UNCHANGED notRooms

\* The ids of the text channels of a category, in the order of the list
\* category.channels.
RECURSIVE SortedIds(_)
SortedIds(ids) ==
    IF ids = {} THEN <<>>
    ELSE LET least == CHOOSE i \in ids : \A j \in ids : i <= j
         IN  <<least>> \o SortedIds(ids \ {least})

CategoryChannelIds(category) ==
    SortedIds({c.id : c \in {ch \in channels : ch.category = category}})

ChannelById(cid) == CHOOSE c \in channels : c.id = cid

\* Lines 664-668: the time of the last message, or of the creation when the
\* channel holds no message.
LastTs(ch) == IF ch.history # <<>> THEN ch.history[1] ELSE ch.created_at

\* Mutant of the comparison at 670: a channel whose last activity lies exactly
\* on the threshold is archived too.
Stale_Inclusive(last_ts, threshold) == last_ts <= threshold

\* Line 670 negated: the channel is not "still active".
Stale(last_ts, threshold) == ~(last_ts >= threshold)

\* Mutant of the move: the channel stays in its category.
Moved_Nowhere(ch) == ch

\* Mutant of the move: the channel is taken out of every category.
Moved_OutOfBoth(ch) == [ch EXCEPT !.category = NONE]

\* channel.edit(category=dst_category)
Moved(ch) == [ch EXCEPT !.category = SS_ARCHIVE]

\* Mutant of the loop: a failure on one channel ends the sweep.
ArchContinue_StopOnFailure(a) ==
    [a EXCEPT !.pc = IF a.todo = <<>> \/ ~a.reads_ok \/ ~a.moves_ok
                     THEN "finish" ELSE "history"]

\* The loop of archive_old_rooms_loop goes on with the next channel, or is
\* through with the list.
ArchContinue(a) ==
    [a EXCEPT !.pc = IF a.todo = <<>> THEN "finish" ELSE "history"]

\* archive_old_rooms_loop fires (lines 613-645); an archive category is
\* configured and both categories are found.
ArchStart ==
    /\ arch.pc = "idle"
    /\ arch' = ArchContinue([IdleArch EXCEPT
                    !.now = today,
                    !.todo = CategoryChannelIds(SS_CLASS),
                    !.rerun = since_sweep])
    /\ since_sweep' = [kind |-> "running", later |-> FALSE]
    /\ UNCHANGED <<today, channels, member_roles, room_creation_times, tasks,
                   arch_last>>
    /\ UNCHANGED notRooms

\* The await of channel.history returns or raises (lines 649-672).
ArchHistory ==
    /\ arch.pc = "history"
    /\ \E read_ok \in BOOLEAN :
         LET ch == ChannelById(Head(arch.todo))
             last_ts == LastTs(ch)
             threshold == arch.now - ARCHIVE_INACTIVE_DAYS
         IN  IF ~read_ok
             THEN /\ arch_last' = [channel |-> ch.id, last_ts |-> last_ts,
                                   outcome |-> "read_failed"]
                  /\ arch' = ArchContinue([arch EXCEPT !.todo = Tail(@),
                                                        !.reads_ok = FALSE])
             ELSE IF Stale(last_ts, threshold)
             THEN /\ arch' = [arch EXCEPT !.pc = "edit", !.last_ts = last_ts]
                  /\ UNCHANGED arch_last
             ELSE /\ arch_last' = [channel |-> ch.id, last_ts |-> last_ts,
                                   outcome |-> "kept"]
                  /\ arch' = ArchContinue([arch EXCEPT !.todo = Tail(@)])
    /\ UNCHANGED <<today, channels, member_roles, room_creation_times, tasks,
                   since_sweep>>
    /\ UNCHANGED notRooms

\* The await of channel.edit returns or raises (lines 674-690).
ArchEdit ==
    /\ arch.pc = "edit"
    /\ \E edit_ok \in BOOLEAN :
         LET ch == ChannelById(Head(arch.todo))
         IN  /\ channels' = IF edit_ok
                            THEN (channels \ {ch}) \cup {Moved(ch)}
                            ELSE channels
             /\ arch_last' = [channel |-> ch.id, last_ts |-> arch.last_ts,
                              outcome |-> IF edit_ok THEN "moved" ELSE "move_failed"]
             /\ arch' = ArchContinue([arch EXCEPT
                    !.todo = Tail(@),
                    !.archived_count = IF edit_ok THEN @ + 1 ELSE @,
                    !.moves_ok = @ /\ edit_ok])
    /\ UNCHANGED <<today, member_roles, room_creation_times, tasks,
                   since_sweep>>
    /\ UNCHANGED notRooms

\* Lines 692-698: the sweep reports its count and returns.
ArchFinish ==
    /\ arch.pc = "finish"
    /\ arch' = IdleArch
    /\ since_sweep' = IF ~arch.moves_ok \/ since_sweep.kind = "none"
                      THEN NoSweep
                      ELSE [kind |-> IF arch.reads_ok THEN "clean" ELSE "moved",
                            later |-> since_sweep.later]
    /\ arch_last' = NoDecision
    /\ UNCHANGED <<today, channels, member_roles, room_creation_times, tasks>>
    /\ UNCHANGED notRooms

\* The rooms over time: the scheduled provisioning, messages, archive sweeps.
ArchiveNext ==
    \/ SweepStart
    \/ CreateDone("loop")
    \/ TaskReturn("loop")
    \/ DayPasses
    \/ \E ch \in channels : PostMessage(ch)
    \/ ArchStart
    \/ ArchHistory
    \/ ArchEdit
    \/ ArchFinish

(***************************************************************************)
(* The /bot-status command of on_message (lines 385-453).                  *)
(***************************************************************************)

\* No /bot-status was answered yet.
NoSummary ==
    [author |-> NONE, kind |-> "none", offline |-> {}, rooms_count |-> 0,
     last_24h |-> 0]

\* Lines 425-433: the text channels of the SS-Class category.
RoomsCount == Cardinality({c \in channels : c.category = SS_CLASS})

\* Lines 441-445: the creations of the last 24 hours (one day of today).
Last24h ==
    Cardinality({k \in 1..Len(room_creation_times) :
                    today - room_creation_times[k] <= 1})

\* Mutant of /bot-status: the administrator check is missing.
BotStatus_NoGuard(author, status) ==
    /\ ~IsBot(author)
    /\ summary' = [author |-> author, kind |-> "summary",
                   offline |-> {b \in Bots : status[b] \in offline_states},
                   rooms_count |-> RoomsCount, last_24h |-> Last24h]
    /\ UNCHANGED <<presenceVars, watchVars, roomVars>>

\* on_message for /bot-status: anyone but an administrator is told that the
\* command is for admins only; an administrator is sent the summary built
\* from the bots' present statuses, the rooms and room_creation_times.
BotStatus(author, status) ==
    /\ ~IsBot(author)
    /\ summary' =
          IF ~IsAdministrator(author)
          THEN [NoSummary EXCEPT !.author = author, !.kind = "denied"]
          ELSE [author |-> author, kind |-> "summary",
                offline |-> {b \in Bots : status[b] \in offline_states},
                rooms_count |-> RoomsCount, last_24h |-> Last24h]
    /\ UNCHANGED <<presenceVars, watchVars, roomVars>>

\* /bot-status next to the scheduled provisioning, over time.
SummaryNext ==
    \/ SweepStart
    \/ CreateDone("loop")
    \/ TaskReturn("loop")
    \/ DayPasses
    \/ \E author \in MemberSet, status \in [Bots -> RawStatus] :
          BotStatus(author, status)

\* The process is stopped and started again: StatusWatcher() is constructed
\* anew (lines 92-99) and every coroutine of the old process is gone.  What
\* lives on the platform (channels, roles) and the clocks stay.
Restart ==
    /\ restarts < MaxRestarts
    /\ restarts' = restarts + 1
    /\ last_status' = [b \in Bots |-> NONE]
    /\ watch_cooldown' = EmptyDict
    /\ room_creation_times' = <<>>
    /\ chk' = [pc |-> "idle", i |-> 0, kind |-> "none"]
    /\ inbox' = [u \in WatchUsers |-> 0]
    /\ tasks' = [id \in TaskIds |-> IdleTask]
    /\ arch' = IdleArch
    /\ since_sweep' = NoSweep
    /\ arch_last' = NoDecision
    /\ UNCHANGED <<cycles, emitted, delivered, obs, last_obs, skipped>>
    /\ UNCHANGED <<clock, last_resp, last_accept>>
    /\ UNCHANGED <<today, channels, member_roles, summary>>

\* Presence monitoring across restarts of the process.
RestartNext == PresenceNext \/ Restart

vars == <<presenceVars, watchVars, roomVars, summary>>

\* The state after StatusWatcher() is constructed and the client is ready.
Init == PresenceInit /\ WatchInit /\ RoomsInit /\ summary = NoSummary

SpecProvision == Init /\ [][ProvisionNext]_vars

SpecEnsureTwice == Init /\ [][EnsureTwiceNext]_vars

SpecArchive == Init /\ [][ArchiveNext]_vars

SpecRestart == Init /\ [][RestartNext]_vars

SpecSummary == Init /\ [][SummaryNext]_vars

\* /room next to archive_old_rooms_loop.
RehouseNext ==
    \/ \E author \in MemberSet : RoomStart(author)
    \/ CreateDone("cmd")
    \/ TaskReturn("cmd")
    \/ DayPasses
    \/ ArchStart
    \/ ArchHistory
    \/ ArchEdit
    \/ ArchFinish

SpecRehouse == Init /\ [][RehouseNext]_vars

Next ==
    \/ PresenceNext
    \/ WatchNext
    \/ ProvisionNext
    \/ EnsureTwiceNext
    \/ ArchiveNext
    \/ SummaryNext
    \/ RehouseNext
    \/ Restart

Spec == Init /\ [][Next]_vars

SpecPresence == Init /\ [][PresenceNext]_vars

SpecWatch == Init /\ [][WatchNext]_vars

(***************************************************************************)
(* Claims about presence monitoring (checked under SpecPresence).          *)
(***************************************************************************)

\* The kinds of the notifications emitted for bot b, in order.
KindsFor(b) ==
    LET mine == SelectSeq(emitted, LAMBDA e : e.bot = b)
    IN  [k \in 1..Len(mine) |-> mine[k].kind]

RUR == <<"reachable", "unreachable", "reachable">>

\* C2: the first observation of a monitored bot (no stored status) stores the
\* observed raw status and emits no notification, whatever the status is.
C2_FirstObservationSilent ==
    (last_obs.bot # NONE /\ last_obs.prev = NONE) =>
        /\ last_obs.kind = "none"
        /\ chk.pc # "send"
        /\ last_status[last_obs.bot] = last_obs.status
        /\ KindsFor(last_obs.bot) = <<>>

C2_Witness ==
    /\ last_obs.bot = "botB"
    /\ last_obs.prev = NONE
    /\ last_obs.status = "not_in_guild"
    /\ last_status["botB"] = "not_in_guild"

\* C3: an observation whose class equals the class of the stored status emits
\* no notification, both for an identical raw status and for a change of
\* sub-state inside one class.
C3_SameClassSilent ==
    (last_obs.bot # NONE /\ last_obs.prev # NONE
        /\ StatusClass(last_obs.prev) = StatusClass(last_obs.status)) =>
        /\ last_obs.kind = "none"
        /\ chk.pc # "send"
        /\ Len(KindsFor(last_obs.bot)) < Len(obs[last_obs.bot]) - 1

C3_Witness ==
    /\ last_obs.bot = "botA"
    /\ last_obs.prev = "offline"
    /\ last_obs.status = "invisible"
    /\ \E k \in 1..Len(emitted) : emitted[k].bot = "botA"

\* C4: a bot observed reachable, unreachable, reachable emits exactly two
\* notifications, "offline" then "online"; two bots first seen A reachable,
\* B unreachable and then A unreachable, B reachable emit exactly one
\* "offline" for A and one "online" for B.
C4_TwoTransitionsInOrder ==
    /\ \A b \in Bots : obs[b] = RUR => KindsFor(b) = <<"offline", "online">>
    /\ (obs["botA"] = <<"reachable", "unreachable">>
            /\ obs["botB"] = <<"unreachable", "reachable">>) =>
        (KindsFor("botA") = <<"offline">> /\ KindsFor("botB") = <<"online">>
            /\ Len(emitted) = 2)

C4_Witness ==
    /\ obs["botA"] = RUR
    /\ Len(obs["botB"]) >= 2
    /\ SubSeq(obs["botB"], 1, 2) = <<"unreachable", "reachable">>
    /\ KindsFor("botA") = <<"offline", "online">>
    /\ Len(delivered) = Len(emitted)
    /\ chk.pc = "idle"

\* The tracker of the data model, run over the classes of the observations
\* of one bot: it stores the class, compares the class of each observation
\* with the stored one and tells every difference.
RECURSIVE ClassTrackerKinds(_)
ClassTrackerKinds(classes) ==
    IF Len(classes) <= 1 THEN <<>>
    ELSE LET n == Len(classes)
             before == ClassTrackerKinds(SubSeq(classes, 1, n - 1))
         IN  IF classes[n] = classes[n - 1] THEN before
             ELSE Append(before, IF classes[n] = "unreachable" THEN "offline"
                                 ELSE "online")

\* C22: for every bot, the notifications check_status_loop emits while it
\* stores and compares raw statuses are, in order, the ones a tracker emits
\* that stores and compares the class of each observation; with every
\* delivery successful they are the ones delivered as well.
C22_RawTrackerEqualsClassTracker ==
    /\ \A b \in Bots : KindsFor(b) = ClassTrackerKinds(obs[b])
    /\ (chk.pc # "send" /\ Len(delivered) = Len(emitted)) => delivered = emitted

\* botA went from one reachable raw status to idle, silently, and then to
\* invisible, which was told and delivered.
C22_Witness ==
    /\ obs["botA"] = <<"reachable", "reachable", "unreachable">>
    /\ last_obs.bot = "botA"
    /\ last_obs.prev = "idle"
    /\ last_obs.status = "invisible"
    /\ KindsFor("botA") = <<"offline">>
    /\ delivered = emitted
    /\ chk.pc = "loop"

\* A cycle that finds the guild or the status channel missing.
SkippedStep == chk.pc = "idle" /\ cycles' = cycles + 1 /\ chk'.pc = "idle"

\* A skipped cycle stores nothing, observes nothing and emits nothing.
SkippedCycleFrame ==
    SkippedStep =>
        /\ last_status' = last_status
        /\ obs' = obs
        /\ emitted' = emitted
        /\ delivered' = delivered

\* An observation whose class differs from the class of the stored status is
\* handed to channel.send.
DifferenceIsEmitted ==
    (obs' # obs /\ last_obs'.prev # NONE
        /\ StatusClass(last_obs'.prev) # StatusClass(last_obs'.status)) =>
        /\ last_obs'.prev = last_status[last_obs'.bot]
        /\ chk'.pc = "send"
        /\ emitted' = Append(emitted,
                [bot |-> last_obs'.bot,
                 kind |-> IF StatusClass(last_obs'.status) = "unreachable"
                          THEN "offline" ELSE "online"])

\* The cycle that follows a skipped one ends with every monitored bot visited.
CycleAfterSkipVisitsAll ==
    (chk.pc \in {"loop", "send"} /\ chk'.pc \in {"idle", "stopped"}
        /\ (cycles - 1) \in skipped) =>
        chk.i >= Len(MONITORED_BOT_IDS)

\* C24: a cycle of check_status_loop that finds the guild or the status
\* channel missing changes no stored status and emits nothing, and the first
\* cycle after it that finds them visits every monitored bot and notifies
\* each whose class differs from the class of its stored status.
C24_SkippedCycleIsNoOp ==
    /\ [][SkippedCycleFrame]_vars
    /\ [][DifferenceIsEmitted]_vars
    /\ [][CycleAfterSkipVisitsAll]_vars

(***************************************************************************)
(* Claims about the /watch cooldown (checked under SpecWatch).             *)
(***************************************************************************)

\* A step in which a /watch handler of user u runs.
HandledStep(u) == inbox'[u] < inbox[u]

RejectedStep(u) ==
    HandledStep(u) /\ last_resp'.author = u /\ last_resp'.kind = "cooldown"

AcceptedStep(u) ==
    HandledStep(u) /\ last_resp'.author = u /\ last_resp'.kind # "cooldown"

\* The user's cooldown is running: less than 10 s since the last accepted /watch.
CoolingDown(u) ==
    u \in DOMAIN last_accept /\ clock - last_accept[u] < CooldownTicks

\* The latest handler that ran was u's, and it rejected: no /watch of anyone
\* was handled since, and u's window is the one that is still open.
RejectedBefore(u) ==
    last_resp.author = u /\ last_resp.kind = "cooldown"

\* What every rejection does: no status query, no change of the cooldown map,
\* and the whole seconds of the wait that is left.
RejectionShape(u) ==
    /\ ~last_resp'.queried
    /\ watch_cooldown' = watch_cooldown
    /\ last_resp'.remaining * TicksPerSec
            <= CooldownTicks - (clock - last_accept[u])
    /\ CooldownTicks - (clock - last_accept[u])
            < (last_resp'.remaining + 1) * TicksPerSec

\* C9 as stated: a /watch issued before the cooldown has expired is rejected
\* with the remaining wait and without a status query, and over successive
\* rejections at strictly increasing times the remaining wait reported
\* strictly decreases.
C9_Original ==
    [][\A u \in WatchUsers :
        /\ (HandledStep(u) /\ CoolingDown(u)) =>
              (RejectedStep(u) /\ RejectionShape(u))
        /\ (RejectedStep(u) /\ RejectedBefore(u) /\ last_resp.t < clock) =>
              last_resp'.remaining < last_resp.remaining]_vars

\* C9 as amended: the remaining wait is reported in whole seconds (truncated),
\* so over successive rejections at increasing times it never increases, and
\* it strictly decreases when the two rejections are a second or more apart.
C9_RemainingWholeSeconds ==
    [][\A u \in WatchUsers :
        /\ (HandledStep(u) /\ CoolingDown(u)) =>
              (RejectedStep(u) /\ RejectionShape(u))
        /\ (RejectedStep(u) /\ RejectedBefore(u) /\ last_resp.t < clock) =>
              /\ last_resp'.remaining <= last_resp.remaining
              /\ (clock - last_resp.t >= TicksPerSec =>
                    last_resp'.remaining < last_resp.remaining)]_vars

C9_Witness ==
    /\ last_resp.author = "u1"
    /\ last_resp.kind = "cooldown"
    /\ last_resp.t = last_accept["u1"] + 3
    /\ last_resp.remaining = 8
    /\ clock = last_resp.t

\* C10: check and update are one atomic step, so of the /watch handlers of one
\* user, however they are scheduled, at most one is accepted within one
\* cooldown window: whenever one is accepted, the user's previous acceptance
\* lies a full cooldown back.
C10_OneAcceptPerWindow ==
    [][\A u \in WatchUsers :
        (AcceptedStep(u) /\ u \in DOMAIN last_accept) =>
            clock - last_accept[u] >= CooldownTicks]_vars

\* Two handlers of u1 ran at the same instant: one accepted, the other not.
C10_Witness ==
    /\ last_resp.author = "u1"
    /\ last_resp.kind = "cooldown"
    /\ last_resp.t = last_accept["u1"]
    /\ watch_cooldown["u1"] = clock

\* The entry of user v in watch_cooldown is what it was.
EntryKept(v) ==
    /\ v \in DOMAIN watch_cooldown' <=> v \in DOMAIN watch_cooldown
    /\ v \in DOMAIN watch_cooldown => watch_cooldown'[v] = watch_cooldown[v]

\* C23: a rejected /watch leaves watch_cooldown as it is and an accepted one
\* sets the invoker's entry, and no other, to the current time; the map
\* changes in no other step, so an entry is the time of the user's last
\* accepted /watch.  Two accepted ones of a user lie a full cooldown apart,
\* and a /watch handled a full cooldown or more after the user's last
\* accepted one (or with none before) is accepted.
C23_OnlyAcceptanceSetsEntry ==
    /\ [][\A u \in WatchUsers :
            /\ RejectedStep(u) => watch_cooldown' = watch_cooldown
            /\ AcceptedStep(u) =>
                  /\ u \in DOMAIN watch_cooldown'
                  /\ watch_cooldown'[u] = clock
                  /\ u \in DOMAIN watch_cooldown =>
                        clock - watch_cooldown[u] >= CooldownTicks
            /\ (HandledStep(u) /\ ~CoolingDown(u)) => AcceptedStep(u)
            /\ HandledStep(u) => \A v \in WatchUsers \ {u} : EntryKept(v)]_vars
    /\ [][watch_cooldown' # watch_cooldown =>
            \E u \in WatchUsers : AcceptedStep(u)]_vars
    /\ [](watch_cooldown = last_accept)

\* u1 was rejected after its last accepted /watch: its entry is still the time
\* of that one, and u2's entry is its own.
C23_Witness ==
    /\ last_resp.author = "u1"
    /\ last_resp.kind = "cooldown"
    /\ last_resp.t > last_accept["u1"]
    /\ watch_cooldown["u1"] = last_accept["u1"]
    /\ "u2" \in DOMAIN watch_cooldown
    /\ watch_cooldown["u2"] # watch_cooldown["u1"]
    /\ watch_cooldown["u2"] = last_accept["u2"]


(***************************************************************************)
(* Claims about room provisioning (checked under SpecProvision and         *)
(* SpecEnsureTwice).                                                       *)
(***************************************************************************)

\* The rooms member owns in the active category.
ActiveRooms(member) ==
    {c \in channels : c.category = SS_CLASS /\ c.owner = member}

\* C1: two ensure calls for one new member that run concurrently, each on
\* its own snapshot, never both create a room of the same name: no two
\* channels that were created carry one name.
C1_NoTwoCreatesOfOneName ==
    \A c1 \in channels, c2 \in channels :
        c1.name = c2.name => c1 = c2

\* The two calls that ensure_member_room got from the caller "twice".
TwiceDone == Len(tasks["twice"].results) = 2

\* C5: ensure called twice in a row for one member on one snapshot creates at
\* most one room; when the first call creates it, the second returns False
\* and does not call create_text_channel.
C5_SecondCallSkips ==
    TwiceDone =>
        LET first == tasks["twice"].results[1]
            second == tasks["twice"].results[2]
        IN  /\ ~(first.created /\ second.created)
            /\ first.created => (~second.ret /\ ~second.create_called)

\* The first of the two calls created the room and the second has returned.
C5_Witness ==
    /\ TwiceDone
    /\ tasks["twice"].results[1].created
    /\ tasks["twice"].results[1].ret
    /\ ~tasks["twice"].results[2].create_called
    /\ ActiveRooms(tasks["twice"].author) # {}

\* C6: in every reachable state the active category holds at most one room
\* per eligible member.
C6_OneActiveRoomPerMember ==
    \A member \in MemberSet :
        ~Ineligible(member) => Cardinality(ActiveRooms(member)) <= 1

(***************************************************************************)
(* Claims about the archive sweep (checked under SpecArchive).             *)
(***************************************************************************)

\* C7 as stated: a sweep that follows a sweep whose moves all succeeded, with
\* no message and no new room since that sweep started, archives nothing.
C7_Original ==
    (arch.pc = "finish" /\ arch.rerun.kind \in {"clean", "moved"})
        => arch.archived_count = 0

\* C7: a sweep that follows a sweep whose history reads and moves all
\* succeeded, with no message, no new room and no passage of time since
\* that sweep started, archives nothing.
C7_RerunArchivesNothing ==
    (arch.pc = "finish" /\ arch.rerun.kind = "clean" /\ ~arch.rerun.later)
        => arch.archived_count = 0

\* The second of two such sweeps is through, and the first had archived.
C7_Witness ==
    /\ arch.pc = "finish"
    /\ arch.rerun.kind = "clean"
    /\ ~arch.rerun.later
    /\ arch.archived_count = 0
    /\ \E c \in channels : c.category = SS_ARCHIVE

\* The sweep has decided about a channel whose history it could read and
\* whose move, if any, went through.
Decided == arch_last.outcome \in {"kept", "moved"}

\* now - lastActivityAt of the channel the sweep decided about last.
Inactivity == arch.now - arch_last.last_ts

\* C8 as stated: a room is moved to the archive iff now - lastActivityAt >=
\* ARCHIVE_INACTIVE_DAYS.
C8_Original ==
    Decided => (arch_last.outcome = "moved" <=> Inactivity >= ARCHIVE_INACTIVE_DAYS)

\* C8: a room whose history read and move succeed is moved to the archive
\* iff now - lastActivityAt > ARCHIVE_INACTIVE_DAYS; lastActivityAt is the
\* time of its last message, or of its creation when it holds none, as the
\* sweep read it.
C8_ArchivedIffOlderThanThreshold ==
    Decided =>
        /\ arch_last.outcome = "moved" <=> Inactivity > ARCHIVE_INACTIVE_DAYS
        /\ \A c \in channels :
              (c.id = arch_last.channel /\ arch_last.outcome = "kept")
                  => /\ c.category = SS_CLASS
                     /\ LastTs(c) >= arch_last.last_ts
        /\ \A c \in channels :
              (c.id = arch_last.channel /\ arch_last.outcome = "moved")
                  => /\ c.category = SS_ARCHIVE
                     /\ LastTs(c) >= arch_last.last_ts

\* A room without any message, inactive for exactly the threshold, was kept.
C8_Witness ==
    /\ arch_last.outcome = "kept"
    /\ Inactivity = ARCHIVE_INACTIVE_DAYS
    /\ \E c \in channels :
          /\ c.id = arch_last.channel
          /\ c.history = <<>>
          /\ c.category = SS_CLASS
    /\ \E c \in channels : c.category = SS_ARCHIVE

(***************************************************************************)
(* Claims about restarts and failures in presence monitoring (checked      *)
(* under SpecRestart and SpecPresence).                                    *)
(***************************************************************************)

\* C11: the last-known statuses survive a restart of the process: after the
\* restart the map is the map as it was before it.
C11_StatusSurvivesRestart ==
    [][restarts' # restarts => last_status' = last_status]_vars

\* A step in which channel.send raises: it was awaited and did not deliver.
FailedSendStep ==
    chk.pc = "send" /\ chk'.pc # "send" /\ delivered' = delivered
        /\ restarts' = restarts

\* C12: a failed delivery for one bot does not abort the cycle: the loop goes
\* on with the bots that remain, and the loop is not stopped.
C12_FailedSendKeepsCycle ==
    [][(FailedSendStep /\ chk.i < Len(MONITORED_BOT_IDS)) =>
            (chk'.pc = "loop" /\ chk'.i = chk.i + 1)]_vars

(***************************************************************************)
(* More claims about the archive sweep (checked under SpecArchive).        *)
(***************************************************************************)

\* A step of the sweep in which the history read or the move of the channel
\* at hand fails.
ArchFailStep ==
    /\ arch' # arch
    /\ arch.pc \in {"history", "edit"}
    /\ arch'.pc \in {"history", "finish"}
    /\ arch_last'.outcome \in {"read_failed", "move_failed"}

\* C13: a failure on one channel leaves it in the active category, is not
\* counted as archived and does not stop the sweep: the sweep goes on with
\* the channel that follows, and it is through only when none is left.
C13_FailureDoesNotStopSweep ==
    /\ [][ArchFailStep =>
            /\ channels' = channels
            /\ ChannelById(arch_last'.channel).category = SS_CLASS
            /\ arch_last'.channel = Head(arch.todo)
            /\ arch'.archived_count = arch.archived_count
            /\ arch'.todo = Tail(arch.todo)
            /\ arch'.pc = IF Tail(arch.todo) = <<>> THEN "finish"
                          ELSE "history"]_vars
    /\ [](arch.pc = "finish" => arch.todo = <<>>)

\* A sweep is through in which one channel failed and a later one was moved.
C13_Witness ==
    /\ arch.pc = "finish"
    /\ ~(arch.reads_ok /\ arch.moves_ok)
    /\ arch.archived_count = 1
    /\ arch_last.outcome = "moved"
    /\ \E c \in channels : c.category = SS_CLASS /\ c.id < arch_last.channel

(***************************************************************************)
(* More claims about room provisioning (checked under SpecProvision).      *)
(***************************************************************************)

\* The members a coroutine has called ensure_member_room for, in order.
Attempted(t) == [k \in 1..Len(t.results) |-> t.results[k].member]

\* C14: /room of an administrator calls ensure_member_room for every member
\* of the guild, on one snapshot; /room of anyone else calls it for the
\* author alone, creates at most one room, and only one named for the author.
C14_RoomScope ==
    /\ [](LET t == tasks["cmd"]
          IN  /\ (t.pc = "reply" /\ IsAdministrator(t.author)) =>
                    Attempted(t) = Members
              /\ (t.pc # "idle" /\ ~IsAdministrator(t.author)) =>
                    /\ Attempted(t) \o t.todo = <<t.author>>
                    /\ t.created_count <= 1)
    /\ [][(tasks["cmd"].pc = "creating" /\ tasks'["cmd"] # tasks["cmd"]
                /\ ~IsAdministrator(tasks["cmd"].author)) =>
            \A c \in channels' \ channels :
                /\ c.owner = tasks["cmd"].author
                /\ c.name = make_channel_name(tasks["cmd"].author)]_vars

\* An administrator's /room is through and has created the rooms of ann and
\* bob.
C14_Witness ==
    /\ tasks["cmd"].pc = "reply"
    /\ tasks["cmd"].author = "root"
    /\ tasks["cmd"].created_count = 2
    /\ Cardinality(channels) = 2

\* The members the claims call ineligible: automated accounts,
\* administrators and holders of a role on the ignore list.
Exempt(member) ==
    \/ IsBot(member)
    \/ IsAdministrator(member)
    \/ member_roles[member] \cap IGNORE_ROLE_NAMES # {}

\* C16: ensure_member_room never creates a room for a bot, an administrator
\* or a member with a role of IGNORE_ROLE_NAMES: the call returns False
\* before create_text_channel and leaves the snapshot, room_creation_times
\* and the member's roles as they were.
C16_IneligibleNeverProvisioned ==
    /\ [](/\ \A c \in channels : ~Exempt(c.owner)
          /\ \A id \in TaskIds :
                /\ tasks[id].pc = "creating" => ~Exempt(Head(tasks[id].todo))
                /\ \A k \in 1..Len(tasks[id].results) :
                      Exempt(tasks[id].results[k].member) =>
                          /\ ~tasks[id].results[k].ret
                          /\ ~tasks[id].results[k].create_called
                          /\ ~tasks[id].results[k].created)
    /\ [][(tasks["twice"].pc = "idle" /\ tasks'["twice"].pc # "idle"
                /\ Exempt(tasks'["twice"].author)) =>
            /\ tasks'["twice"].pc = "reply"
            /\ Len(tasks'["twice"].results) = 2
            /\ tasks'["twice"].existing_names = CategoryNames(SS_CLASS)
            /\ UNCHANGED <<channels, room_creation_times, member_roles>>]_vars

\* The sweep t of user_room_check_loop is through and every
\* create_text_channel and welcome message of it went through.
AllOk(t) ==
    /\ t.pc = "reply"
    /\ \A k \in 1..Len(t.results) : t.results[k].create_called => t.results[k].ret

\* The computed names of the members that are eligible under roles.
EligibleNames(roles) ==
    {make_channel_name(m) :
        m \in {x \in MemberSet : ~(\/ IsBot(x)
                                    \/ IsAdministrator(x)
                                    \/ roles[x] \cap IGNORE_ROLE_NAMES # {})}}

\* The names of the rooms the calls of t created.
CreatedNames(t) ==
    {make_channel_name(t.results[k].member) :
        k \in {j \in 1..Len(t.results) : t.results[j].created}}

Provisioned(t, chans, roles) ==
    LET names == EligibleNames(roles)
        made  == CreatedNames(t)
    IN  /\ \A name \in names :
              \E c \in chans : c.category = SS_CLASS /\ c.name = name
        /\ made = names \ t.at_start
        /\ t.created_count = Cardinality(made)

\* C17 as stated: when a sweep of user_room_check_loop over guild.members is
\* through and every platform call of it succeeded, SS-Class holds a channel
\* of the computed name of every eligible member, and the sweep created
\* exactly the names that its snapshot lacked when it started.
C17_Original ==
    [][(tasks["loop"].pc # "reply" /\ AllOk(tasks'["loop"])) =>
            Provisioned(tasks'["loop"], channels', member_roles')]_vars

\* The channel c was in SS-Class when the sweep t started or was created
\* since, and archive_old_rooms_loop moved it while the sweep ran.
MovedDuringSweep(t, c) ==
    c.category = SS_ARCHIVE /\ c.id \notin t.archived_at_start

ProvisionedOrMoved(t, chans, roles) ==
    LET names == EligibleNames(roles)
        made  == CreatedNames(t)
    IN  /\ \A name \in names :
              \E c \in chans :
                  /\ c.name = name
                  /\ c.category = SS_CLASS \/ MovedDuringSweep(t, c)
        /\ made = names \ t.at_start
        /\ t.created_count = Cardinality(made)

\* C17 (amended): when such a sweep is through, a channel of the computed name
\* of every eligible member exists, in SS-Class unless archive_old_rooms_loop
\* moved it to the archive while the sweep ran, and the sweep created exactly
\* the names that its snapshot lacked when it started.
C17_SweepProvisionsMissing ==
    [][(tasks["loop"].pc # "reply" /\ AllOk(tasks'["loop"])) =>
            ProvisionedOrMoved(tasks'["loop"], channels', member_roles')]_vars

\* A sweep that found ann's room in its snapshot and created bob's.
C17_Witness ==
    /\ AllOk(tasks["loop"])
    /\ tasks["loop"].at_start = {make_channel_name("ann")}
    /\ CreatedNames(tasks["loop"]) = {make_channel_name("bob")}

\* The two calls for lee, who holds the role L, have returned False, next to
\* a room that exists.
C16_Witness ==
    /\ tasks["twice"].author = "lee"
    /\ TwiceDone
    /\ ~tasks["twice"].results[1].ret
    /\ ~tasks["twice"].results[2].ret
    /\ channels # {}

\* C18: every room is in exactly one of SS-Class and the archive category;
\* a step changes a room's category only from SS-Class to the archive, by a
\* successful channel.edit of archive_old_rooms_loop, and no step removes a
\* room, so the set of rooms never shrinks.
C18_MovedNeverDeleted ==
    /\ [](\A c \in channels :
            /\ c.category \in {SS_CLASS, SS_ARCHIVE}
            /\ \A d \in channels : d.id = c.id => d = c)
    /\ [][\A c \in channels :
            \E d \in channels' :
                /\ d.id = c.id /\ d.name = c.name /\ d.owner = c.owner
                /\ \/ d.category = c.category
                   \/ /\ c.category = SS_CLASS
                      /\ d.category = SS_ARCHIVE
                      /\ arch.pc = "edit"
                      /\ arch_last'.outcome = "moved"
                      /\ arch_last'.channel = c.id]_vars

\* One room was moved to the archive and another was created since.
C18_Witness ==
    /\ arch_last.outcome = "moved"
    /\ ChannelById(arch_last.channel).category = SS_ARCHIVE
    /\ \E c \in channels : c.category = SS_CLASS /\ c.id > arch_last.channel

\* C19: a call of ensure_member_room returns True exactly when its
\* create_text_channel created a room, whatever became of the role
\* assignment and the welcome message after it.
C19_TrueIffCreated ==
    \A id \in TaskIds :
        \A k \in 1..Len(tasks[id].results) :
            tasks[id].results[k].ret <=> tasks[id].results[k].created

\* C20: while the notification of a status change is being sent, last_status
\* already holds the new status of that bot; a send that fails leaves
\* last_status as it is; and an observation that finds the stored status
\* again, in the same or a later cycle, emits nothing.
C20_StoredBeforeDelivery ==
    /\ [](chk.pc = "send" =>
            /\ last_obs.bot = MONITORED_BOT_IDS[chk.i]
            /\ last_obs.prev # last_obs.status
            /\ last_status[last_obs.bot] = last_obs.status)
    /\ [][FailedSendStep =>
            /\ last_status' = last_status
            /\ last_status'[last_obs.bot] = last_obs.status]_vars
    /\ [][(obs' # obs /\ last_obs'.status = last_status[last_obs'.bot]) =>
            emitted' = emitted]_vars

\* The one notification that was due was not delivered, and a later cycle
\* saw the same bot in the same status and emitted nothing.
C20_Witness ==
    /\ Len(emitted) = 1
    /\ delivered = <<>>
    /\ chk.pc = "loop"
    /\ cycles >= 2
    /\ last_obs.bot = emitted[1].bot
    /\ last_obs.prev = last_obs.status
    /\ last_obs.status = "offline"
    /\ emitted[1].kind = "offline"
    /\ last_obs.kind = "none"

(***************************************************************************)
(* Claims about /bot-status (checked under SpecSummary).                   *)
(***************************************************************************)

\* C15: /bot-status of anyone but an administrator is answered with the
\* refusal, produces no summary and changes neither last_status nor
\* watch_cooldown nor room_creation_times; only an administrator is sent the
\* summary.
C15_SummaryForAdminsOnly ==
    /\ [][summary' # summary =>
            /\ UNCHANGED <<last_status, watch_cooldown, room_creation_times>>
            /\ UNCHANGED <<channels, member_roles>>
            /\ (~IsAdministrator(summary'.author) =>
                    summary' = [NoSummary EXCEPT !.author = summary'.author,
                                                 !.kind = "denied"])
            /\ (IsAdministrator(summary'.author) =>
                    /\ summary'.kind = "summary"
                    /\ summary'.rooms_count = RoomsCount
                    /\ summary'.last_24h = Last24h)]_vars
    /\ [](summary.kind = "summary" => IsAdministrator(summary.author))

\* ann was refused while two rooms exist.
C15_Witness ==
    /\ summary.kind = "denied"
    /\ summary.author = "ann"
    /\ Len(room_creation_times) = 2

(***************************************************************************)
(* Claims about rooms that were archived (checked under SpecArchive; the   *)
(* /room half also under SpecRehouse).                                     *)
(***************************************************************************)

\* The members coroutine t was started for.
Covered(t) == {Members[k] : k \in {j \in 1..Len(Members) :
                  \E n \in 1..Len(Attempted(t) \o t.todo) :
                      (Attempted(t) \o t.todo)[n] = Members[j]}}

\* c is an archived room of an eligible member and SS-Class holds no channel
\* of its name.
ArchivedOnly(c) ==
    /\ c.category = SS_ARCHIVE
    /\ ~Exempt(c.owner)
    /\ \A d \in channels : d.category = SS_CLASS => d.name # c.name

\* C21: the snapshot of ensure_member_room holds names of SS-Class only.  A
\* sweep or /room that starts while an eligible member's only room is in the
\* archive goes on to create_text_channel for that member, and no call skips
\* an eligible member on account of a room that was archived before the
\* coroutine started; the new room stands next to the archived one.
C21_ArchivedRoomIsReplaced ==
    /\ [][\A id \in {"loop", "cmd"} :
            (tasks[id].pc = "idle" /\ tasks'[id].pc # "idle") =>
                \A c \in channels :
                    (ArchivedOnly(c) /\ c.owner \in Covered(tasks'[id])) =>
                        /\ tasks'[id].pc = "creating"
                        /\ c.name \notin tasks'[id].existing_names
                        /\ \E n \in 1..Len(tasks'[id].todo) :
                              tasks'[id].todo[n] = c.owner]_vars
    /\ [](\A id \in {"loop", "cmd"} :
            \A k \in 1..Len(tasks[id].results) :
                LET r == tasks[id].results[k]
                IN  /\ (~r.create_called /\ ~Exempt(r.member)) =>
                          \E c \in channels :
                              /\ c.name = make_channel_name(r.member)
                              /\ c.id \notin tasks[id].archived_at_start
                    /\ r.created =>
                          \E c \in channels :
                              /\ c.owner = r.member
                              /\ c.name = make_channel_name(r.member)
                              /\ c.id \notin tasks[id].archived_at_start)

\* A sweep created a second room for a member whose first room was in the
\* archive when the sweep started: the member owns a room in each category.
C21_Witness ==
    \E c \in channels, d \in channels :
        /\ c.category = SS_ARCHIVE
        /\ d.category = SS_CLASS
        /\ c.owner = d.owner
        /\ c.name = d.name
        /\ c.id \in tasks["loop"].archived_at_start
        /\ \E k \in 1..Len(tasks["loop"].results) :
              /\ tasks["loop"].results[k].member = c.owner
              /\ tasks["loop"].results[k].created

=============================================================================
